---- MODULE Spec2Model ----
(***************************************************************************)
(* Model of survey_creation/creating_survey.py: surveyCreation.run, with   *)
(* the global header, the settings block of every language, the            *)
(* row-grouping generator group_likert and the per-language emission loop  *)
(* of create_survey_questions.                                             *)
(*                                                                         *)
(* Python strings are sequences of one-character strings, so that lower(), *)
(* isdigit(), split(), strip() and the substring tests are computed as the *)
(* code computes them.  A row of the csv file is a record; a group is a    *)
(* list of references to rows, modelled as the rows' positions in the      *)
(* file (the identity of the row objects).                                 *)
(***************************************************************************)
EXTENDS Integers, Sequences, FiniteSets, TLC

VARIABLES
    rows,                       \* the rows read_survey_file yields, in file order
    languages,                  \* self.languages
    pc,                         \* where create_survey_questions stands
    error,                      \* the exception that ended the run, "" while none
    index_lang,                 \* enumerate(self.languages): position of the pass
    pass_txt_lang,              \* txt_lang: the text column of the pass
    nbr_section,                \* tracked section index of the pass
    code_to_multiple_question,  \* self.code_to_multiple_question
    pos,                        \* group_likert: position of the next row of indict
    group_survey_q,             \* group_likert: the working group
    previous_answer_format,     \* group_likert: trackers
    previous_file_answer,
    previous_code,
    q,                          \* the group the generator handed to the consumer
    groups,                     \* history: the groups yielded so far in this pass
    subquestion,                \* main_config.subquestion, the shared template
    out                         \* the records written to the outfile, in order

vars == <<rows, languages, pc, error, index_lang, pass_txt_lang, nbr_section,
          code_to_multiple_question, pos, group_survey_q,
          previous_answer_format, previous_file_answer, previous_code,
          q, groups, subquestion, out>>

-----------------------------------------------------------------------------
(* Bounds of the model. *)

MaxRows == 2          \* longest row sequence of the pipeline specification
MaxLikertRows == 6    \* longest row sequence drawn from the compound pool
MaxGroupRows == 3     \* longest row sequence of the grouping specification
MaxLanguages == 3     \* longest language list of the language specification
MaxLangRows == 1      \* longest row sequence of the language specification
MaxPairRows == 3      \* longest row sequence of the agreement specification

-----------------------------------------------------------------------------
(* Python strings and the str methods the code uses. *)

None == <<"None">>    \* Python's None: no str is a sequence holding this element

Digits == <<"0", "1", "2", "3", "4", "5", "6", "7", "8", "9">>
UpperCase == <<"A", "B", "C", "D", "E", "F", "G", "H", "I", "J", "K", "L", "M",
               "N", "O", "P", "Q", "R", "S", "T", "U", "V", "W", "X", "Y", "Z">>
LowerCase == <<"a", "b", "c", "d", "e", "f", "g", "h", "i", "j", "k", "l", "m",
               "n", "o", "p", "q", "r", "s", "t", "u", "v", "w", "x", "y", "z">>

\* c.isdigit()
isdigit(c) == \E i \in 1..Len(Digits) : Digits[i] = c

\* s.lower()
lower(s) ==
    [i \in 1..Len(s) |->
        IF \E k \in 1..Len(UpperCase) : UpperCase[k] = s[i]
        THEN LowerCase[CHOOSE k \in 1..Len(UpperCase) : UpperCase[k] = s[i]]
        ELSE s[i]]

\* str(n) of an integer
RECURSIVE str(_)
str(n) ==
    IF n < 0 THEN <<"-">> \o str(-n)
    ELSE IF n < 10 THEN <<Digits[n + 1]>>
    ELSE str(n \div 10) \o <<Digits[(n % 10) + 1]>>

\* int(s) of a string of decimal digits
RECURSIVE int(_)
int(s) ==
    IF Len(s) = 0 THEN 0
    ELSE 10 * int(SubSeq(s, 1, Len(s) - 1))
         + ((CHOOSE i \in 1..Len(Digits) : Digits[i] = s[Len(s)]) - 1)

\* c in s, for a single character c
HasChar(s, c) == \E i \in 1..Len(s) : s[i] = c

\* pat in s, the substring test
HasSub(s, pat) ==
    \E i \in 1..(Len(s) - Len(pat) + 1) : SubSeq(s, i, i + Len(pat) - 1) = pat

\* s.split(c), for a single character c
RECURSIVE split(_, _)
split(s, c) ==
    IF ~HasChar(s, c) THEN <<s>>
    ELSE LET i == CHOOSE k \in 1..Len(s) :
                      s[k] = c /\ \A j \in 1..(k - 1) : s[j] # c
         IN  <<SubSeq(s, 1, i - 1)>> \o split(SubSeq(s, i + 1, Len(s)), c)

\* s.replace(c, '')
remove(s, c) == SelectSeq(s, LAMBDA x : x # c)

\* s.strip(c)
RECURSIVE strip(_, _)
strip(s, c) ==
    IF Len(s) > 0 /\ s[1] = c THEN strip(Tail(s), c)
    ELSE IF Len(s) > 0 /\ s[Len(s)] = c THEN strip(SubSeq(s, 1, Len(s) - 1), c)
    ELSE s

-----------------------------------------------------------------------------
(* String literals of the code. *)

s_likert == <<"l", "i", "k", "e", "r", "t">>
s_ynna == <<"y", "/", "n", "/", "n", "a">>
s_one_choice == <<"o", "n", "e", " ", "c", "h", "o", "i", "c", "e">>
s_ranking == <<"r", "a", "n", "k", "i", "n", "g">>
s_multiple_choices == <<"m", "u", "l", "t", "i", "p", "l", "e", " ",
                        "c", "h", "o", "i", "c", "e", "s">>
s_multiple_choice == <<"m", "u", "l", "t", "i", "p", "l", "e", " ",
                       "c", "h", "o", "i", "c", "e">>
s_multi_choice == <<"m", "u", "l", "t", "i", " ", "c", "h", "o", "i", "c", "e">>
s_multi_likert == <<"m", "u", "l", "t", "i", "_", "l", "i", "k", "e", "r", "t">>
s_freenumeric == <<"f", "r", "e", "e", "n", "u", "m", "e", "r", "i", "c">>
s_freetext == <<"f", "r", "e", "e", "t", "e", "x", "t">>
s_question == <<"q", "u", "e", "s", "t", "i", "o", "n">>
s_lang_trans == <<"l", "a", "n", "g", "_", "t", "r", "a", "n", "s">>
s_SQ001 == <<"S", "Q", "0", "0", "1">>
s_Rank == <<"R", "a", "n", "k">>
s_Y == <<"Y">>
s_N == <<"N">>
s_G == <<"G">>
s_OR == <<"O", "R">>
s_AND == <<"A", "N", "D">>

-----------------------------------------------------------------------------
(* The input: rows of the survey csv file, answer files, language lists. *)

\* a row of csv.DictReader; txt holds the text columns, keyed by column name
Row(section, code, fmt, cond, file, other, random) ==
    [section |-> section, code |-> code, answer_format |-> fmt,
     condition |-> cond, answer_file |-> file, other |-> other,
     random |-> random,
     txt |-> (s_question :> (<<"E">> \o code))
             @@ ((s_lang_trans \o <<"1">>) :> (<<"F">> \o code))
             @@ ((s_lang_trans \o <<"2">>) :> (<<"D">> \o code))]

c_none == << >>
c_list == <<"x", " ", "i", "n", " ", "[", "1", "]">>
c_or == <<"x", " ", "i", "n", " ", "[", "1", " ", "O", "R", " ", "2", "]">>

f_A == <<"A">>
f_B == <<"B">>
f_C == <<"C">>
f_none == << >>

\* the files of the listAnswers folder, as f.readlines() returns them; the
\* last line of file C has no line terminator
AnswerFiles ==
    (f_A :> << <<"\"", "y", "\"", ";", "\"", "o", "\"", "\n">>, <<"n", "\n">> >>)
    @@ (f_B :> << <<"a", ";", "b", "\n">> >>)
    @@ (f_C :> << <<"c", ";", "d", "\n">>, <<"e", ";", "f">> >>)

s_Likert == <<"L", "i", "k", "e", "r", "t">>
s_date == <<"d", "a", "t", "e">>

\* rows of the pipeline specification: every shape of the dispatcher, both
\* sections, conditions that parse and that do not, an unknown format
RowPool ==
    { Row(<<"1">>, <<"q", "1">>, s_likert, c_none, f_A, s_N, s_N),
      Row(<<"2">>, <<"q", "2">>, s_Likert, c_none, f_A, s_Y, s_Y),
      Row(<<"1">>, <<"q", "3">>, s_likert, c_none, f_B, s_N, s_N),
      Row(<<"1">>, <<"p", "1">>, s_ynna, c_none, f_none, s_N, s_Y),
      Row(<<"2">>, <<"p", "2">>, s_ynna, c_none, f_none, s_N, s_N),
      Row(<<"1">>, <<"r", "1">>, s_ranking, c_none, f_A, s_N, s_N),
      Row(<<"1">>, <<"r", "2">>, s_ranking, c_list, f_A, s_N, s_N),
      Row(<<"2">>, <<"o", "1">>, s_one_choice, c_or, f_B, s_Y, s_N),
      Row(<<"1">>, <<"m", "1">>, s_multiple_choices, c_none, f_C, s_N, s_N),
      Row(<<"1">>, <<"t", "1">>, s_freetext, c_none, f_none, s_Y, s_N),
      Row(<<"2">>, <<"t", "2">>, s_freetext, c_list, f_none, s_N, s_N),
      Row(<<"2">>, <<"n", "1">>, s_freenumeric, c_none, f_none, s_N, s_N),
      Row(<<"1">>, <<"d", "1">>, s_date, c_none, f_none, s_N, s_N) }

\* rows of the longer sequences: enough to build several compound groups
\* and to come back to a section left earlier
LikertPool ==
    { Row(<<"1">>, <<"q", "1">>, s_likert, c_none, f_A, s_N, s_N),
      Row(<<"1">>, <<"q", "3">>, s_likert, c_none, f_B, s_N, s_N),
      Row(<<"2">>, <<"p", "1">>, s_ynna, c_none, f_none, s_N, s_N) }

\* rows of the grouping specification: the fields group_likert reads; the
\* one choice rows share the answer file of likert rows and the stem of
\* y/n/na rows
GroupCodes == { <<"p", "1">>, <<"p", "2">>, <<"p", "1", "a">>,
                <<"p", "2", "a">>, <<"r", "1">> }

GroupPool ==
    { Row(<<"1">>, <<"q", "1">>, s_likert, c, f, s_N, s_N) :
          c \in {c_none, c_or}, f \in {f_A, f_B} }
    \cup { Row(<<"1">>, <<"q", "1">>, s_Likert, c_none, f_A, s_N, s_N) }
    \cup { Row(<<"1">>, code, s_ynna, c_none, f_none, s_N, s_N) :
          code \in GroupCodes }
    \cup { Row(<<"1">>, <<"p", "1">>, s_ynna, c_or, f_none, s_N, s_N) }
    \cup { Row(<<"1">>, <<"p", "3">>, s_one_choice, c, f_A, s_N, s_N) :
          c \in {c_none, c_or} }

\* rows of the agreement specification: every way of group_likert to keep
\* a row in the working group or to end the group
PairPool ==
    { Row(<<"1">>, <<"q", "1">>, s_likert, c_none, f_A, s_N, s_N),
      Row(<<"1">>, <<"q", "2">>, s_likert, c_none, f_B, s_N, s_N),
      Row(<<"1">>, <<"q", "3">>, s_likert, c_or, f_A, s_N, s_N),
      Row(<<"1">>, <<"p", "1">>, s_ynna, c_none, f_none, s_N, s_N),
      Row(<<"1">>, <<"p", "2">>, s_ynna, c_none, f_none, s_N, s_N),
      Row(<<"1">>, <<"p", "3">>, s_one_choice, c_none, f_A, s_N, s_N) }

SeqsUpTo(S, n) == UNION { [1..k -> S] : k \in 0..n }

LanguageLists == { <<"en", "fr">> }

\* the language lists of the language specification: every order of the
\* codes, 'en' first, later, twice or not at all
LanguageCodes == {"en", "fr", "de"}
AllLanguageLists == UNION { [1..k -> LanguageCodes] : k \in 1..MaxLanguages }

\* rows of the language specification
LangPool ==
    { Row(<<"1">>, <<"t", "1">>, s_freetext, c_none, f_none, s_N, s_N),
      Row(<<"1">>, <<"o", "1">>, s_one_choice, c_none, f_A, s_N, s_N),
      Row(<<"1">>, <<"d", "1">>, s_date, c_none, f_none, s_N, s_N) }

-----------------------------------------------------------------------------
(* group_likert *)

\* current_code with a fault seeded: only the digits at the end are dropped
current_code_trailing(code) ==
    LET keep == { k \in 0..Len(code) :
                      \A j \in (k + 1)..Len(code) : isdigit(code[j]) }
        n == CHOOSE k \in keep : \A m \in keep : k <= m
    IN  SubSeq(code, 1, n)

\* the code stem: the code without its digits
current_code(code) == SelectSeq(code, LAMBDA c : ~isdigit(c))

\* whether the row carries a condition
current_condition(cond) == cond # << >>

\* likert_keeps with a fault seeded: the format of the previous row is not looked at
likert_keeps_any_format(cur_file, prev_file, prev_format) ==
    cur_file = prev_file \/ prev_file = None

\* an unconditioned likert row stays in the working group
likert_keeps(cur_file, prev_file, prev_format) ==
    /\ (cur_file = prev_file \/ prev_file = None)
    /\ prev_format = s_likert

\* ynna_keeps with a fault seeded: the code stems are not compared
ynna_keeps_any_code(cur_code, prev_code, prev_format) ==
    prev_format = s_ynna

\* an unconditioned y/n/na row stays in the working group
ynna_keeps(cur_code, prev_code, prev_format) ==
    /\ (cur_code = prev_code \/ prev_code = None)
    /\ prev_format = s_ynna

\* yields with a fault seeded: a row that offers 'other' is never merged
yields_on_other(row, group, prev_format, prev_file, prev_code) ==
    LET current_answer_format == lower(row.answer_format) IN
    /\ Len(group) > 0
    /\ IF row.other = s_Y
       THEN TRUE
       ELSE IF current_answer_format = s_likert
               /\ ~current_condition(row.condition)
       THEN ~likert_keeps(row.answer_file, prev_file, prev_format)
       ELSE IF current_answer_format = s_ynna
               /\ ~current_condition(row.condition)
       THEN ~ynna_keeps(current_code(row.code), prev_code, prev_format)
       ELSE TRUE

\* whether the loop body yields the working group before it takes the row
yields(row, group, prev_format, prev_file, prev_code) ==
    LET current_answer_format == lower(row.answer_format) IN
    /\ Len(group) > 0
    /\ IF current_answer_format = s_likert /\ ~current_condition(row.condition)
       THEN ~likert_keeps(row.answer_file, prev_file, prev_format)
       ELSE IF current_answer_format = s_ynna
               /\ ~current_condition(row.condition)
       THEN ~ynna_keeps(current_code(row.code), prev_code, prev_format)
       ELSE TRUE

\* the working group after the loop body
group_after(group, i, yielded) ==
    IF yielded THEN <<i>> ELSE Append(group, i)

\* start of the generator
GenInit ==
    /\ pos = 1
    /\ group_survey_q = << >>
    /\ previous_answer_format = None
    /\ previous_file_answer = None
    /\ previous_code = None

\* one iteration of `for q in indict`.  When the body yields, the consumer
\* runs between the yield and the rest of the body; the two touch disjoint
\* state (the generator rebinds group_survey_q to a new list on resuming),
\* so the rest of the body is taken here and the consumer runs next.
GroupLikertStep ==
    /\ pc = "gen"
    /\ pos <= Len(rows)
    /\ LET row == rows[pos]
           y == yields(row, group_survey_q, previous_answer_format,
                       previous_file_answer, previous_code)
       IN  /\ group_survey_q' = group_after(group_survey_q, pos, y)
           /\ previous_answer_format' = lower(row.answer_format)
           /\ previous_file_answer' = row.answer_file
           /\ previous_code' = current_code(row.code)
           /\ pos' = pos + 1
           /\ IF y
              THEN /\ q' = group_survey_q
                   /\ groups' = Append(groups, group_survey_q)
                   /\ pc' = "emit"
              ELSE UNCHANGED <<q, groups, pc>>
    /\ UNCHANGED <<rows, languages, error, index_lang, pass_txt_lang,
                   nbr_section,
                   code_to_multiple_question, subquestion, out>>

\* GroupLikertEnd with a fault seeded: the generator ends without its last yield
GroupLikertEnd_no_yield ==
    /\ pc = "gen"
    /\ pos = Len(rows) + 1
    /\ pos' = pos + 1
    /\ UNCHANGED <<rows, languages, pc, error, index_lang, pass_txt_lang,
                   nbr_section,
                   code_to_multiple_question, group_survey_q,
                   previous_answer_format, previous_file_answer,
                   previous_code, q, groups, subquestion, out>>

\* the yield after the loop; pos = Len(rows) + 2 marks the generator exhausted
GroupLikertEnd ==
    /\ pc = "gen"
    /\ pos = Len(rows) + 1
    /\ q' = group_survey_q
    /\ groups' = Append(groups, group_survey_q)
    /\ pc' = "emit"
    /\ pos' = pos + 1
    /\ UNCHANGED <<rows, languages, error, index_lang, pass_txt_lang,
                   nbr_section,
                   code_to_multiple_question, group_survey_q,
                   previous_answer_format, previous_file_answer,
                   previous_code, subquestion, out>>

\* a caller that only collects the groups: list(group_likert(rows))
Collect ==
    /\ pc = "emit"
    /\ pc' = "gen"
    /\ UNCHANGED <<rows, languages, error, index_lang, pass_txt_lang,
                   nbr_section,
                   code_to_multiple_question, pos, group_survey_q,
                   previous_answer_format, previous_file_answer,
                   previous_code, q, groups, subquestion, out>>

\* the shared template of main_config before the run
config_subquestion ==
    [name |-> << >>, text |-> << >>, language |-> "", relevance |-> << >>]

InitGroup ==
    /\ rows \in SeqsUpTo(GroupPool, MaxGroupRows)
    /\ languages \in LanguageLists
    /\ pc = "gen"
    /\ error = ""
    /\ index_lang = 0
    /\ pass_txt_lang = None
    /\ nbr_section = -1
    /\ code_to_multiple_question = 0
    /\ GenInit
    /\ q = << >>
    /\ groups = << >>
    /\ subquestion = config_subquestion
    /\ out = << >>

NextGroup == GroupLikertStep \/ GroupLikertEnd \/ Collect

SpecGroup == InitGroup /\ [][NextGroup]_vars

\* the generator alone, over the rows of the agreement specification
InitPair ==
    /\ rows \in SeqsUpTo(PairPool, MaxPairRows)
    /\ languages \in LanguageLists
    /\ pc = "gen"
    /\ error = ""
    /\ index_lang = 0
    /\ pass_txt_lang = None
    /\ nbr_section = -1
    /\ code_to_multiple_question = 0
    /\ GenInit
    /\ q = << >>
    /\ groups = << >>
    /\ subquestion = config_subquestion
    /\ out = << >>

SpecPair == InitPair /\ [][NextGroup]_vars

-----------------------------------------------------------------------------
(* The emitters.  Each takes and returns the run's mutable state st:       *)
(* ok (no exception so far), error (the exception), out (the outfile),     *)
(* subquestion (the shared template), counter (code_to_multiple_question)  *)
(* and nbr (nbr_section).  After an exception nothing more is done.        *)
(* Records carry two history fields: pass, the language pass that wrote    *)
(* them, and origin, the position of the row they were built from (0 when  *)
(* there is none).                                                         *)

RankCount == 8     \* range(1, 9)

\* F applied to the value of st (st is evaluated once, whatever F does)
Then(st, F(_)) == CHOOSE v \in { F(s) : s \in {st} } : TRUE

raise(st, e) == [st EXCEPT !.ok = FALSE, !.error = e]

_write_row(st, rec) == [st EXCEPT !.out = Append(@, rec)]

\* check_adding_section with a fault seeded: a header is written only when
\* the section index grows
check_adding_section_increasing(st, section, lang, origin) ==
    Then(st, LAMBDA s :
        IF ~s.ok THEN s
        ELSE IF int(section) - 1 > s.nbr
        THEN _write_row([s EXCEPT !.nbr = int(section) - 1],
                        [kind |-> "G", scale |-> s_G \o str(int(section) - 1),
                         language |-> lang, pass |-> index_lang,
                         origin |-> origin])
        ELSE s)

check_adding_section(st, section, lang, origin) ==
    Then(st, LAMBDA s :
        IF ~s.ok THEN s
        ELSE IF int(section) - 1 # s.nbr
        THEN _write_row([s EXCEPT !.nbr = int(section) - 1],
                        [kind |-> "G", scale |-> s_G \o str(int(section) - 1),
                         language |-> lang, pass |-> index_lang,
                         origin |-> origin])
        ELSE s)

\* the template setup_question picks, "" when the type is not known
question_template(type_question) ==
    CASE type_question = s_multi_likert -> "likert_question"
      [] type_question = s_one_choice -> "one_choice_question"
      [] type_question = s_ranking -> "ranking_question"
      [] type_question = s_multiple_choice -> "multiple_choice_question"
      [] type_question = s_freenumeric -> "freenumeric_question"
      [] type_question = s_freetext -> "freetext_question"
      [] type_question = s_likert -> "likert_question"
      [] type_question = s_ynna -> "y_n_question"
      [] OTHER -> ""

\* the question record of a row, under the name and text given
question_record(type_question, r, name, text, lang) ==
    [kind |-> "Q", type |-> type_question,
     tmpl |-> question_template(type_question),
     name |-> name, text |-> text, language |-> lang,
     other |-> IF rows[r].other = s_Y THEN s_Y ELSE s_N,
     pass |-> index_lang, origin |-> r]

\* setup_question with a fault seeded: the counter is incremented for every question
setup_question_counts_all(st, type_question, r, txt_lang, lang) ==
    Then(st, LAMBDA s :
        IF ~s.ok THEN s
        ELSE IF question_template(type_question) = ""
        THEN raise(s, "RuntimeError")
        ELSE IF type_question = s_multi_likert
        THEN _write_row([s EXCEPT !.counter = @ + 1],
                 question_record(type_question, r,
                                 s_likert \o str(s.counter), << >>, lang))
        ELSE IF txt_lang \notin DOMAIN rows[r].txt THEN raise(s, "KeyError")
        ELSE _write_row([s EXCEPT !.counter = @ + 1],
                 question_record(type_question, r, rows[r].code,
                                 rows[r].txt[txt_lang], lang)))

setup_question(st, type_question, r, txt_lang, lang) ==
    Then(st, LAMBDA s :
        IF ~s.ok THEN s
        ELSE IF question_template(type_question) = ""
        THEN raise(s, "RuntimeError")
        ELSE IF type_question = s_multi_likert
        THEN _write_row([s EXCEPT !.counter = @ + 1],
                 question_record(type_question, r,
                                 s_likert \o str(s.counter), << >>, lang))
        ELSE IF txt_lang \notin DOMAIN rows[r].txt THEN raise(s, "KeyError")
        ELSE _write_row(s,
                 question_record(type_question, r, rows[r].code,
                                 rows[r].txt[txt_lang], lang)))

\* the subquestion template written as it stands
write_subquestion(st, origin) ==
    Then(st, LAMBDA s :
        _write_row(s, [kind |-> "SQ", name |-> s.subquestion.name,
                       text |-> s.subquestion.text,
                       language |-> s.subquestion.language,
                       relevance |-> s.subquestion.relevance,
                       pass |-> index_lang, origin |-> origin]))

\* subquestion_multi_likert with a fault seeded: only the first row of the
\* list gets its subquestion
subquestion_multi_likert_first_only(st, list_likert, lang, txt_lang) ==
    Then(st, LAMBDA s :
        IF ~s.ok \/ list_likert = << >> THEN s
        ELSE IF txt_lang \notin DOMAIN rows[Head(list_likert)].txt
        THEN raise(s, "KeyError")
        ELSE write_subquestion(
                 [s EXCEPT !.subquestion.relevance = <<"1">>,
                           !.subquestion.language = lang,
                           !.subquestion.name = rows[Head(list_likert)].code,
                           !.subquestion.text =
                               rows[Head(list_likert)].txt[txt_lang]],
                 Head(list_likert)))

\* for row in list_likert
RECURSIVE subquestion_multi_likert(_, _, _, _)
subquestion_multi_likert(st, list_likert, lang, txt_lang) ==
    Then(st, LAMBDA s :
        IF ~s.ok \/ list_likert = << >> THEN s
        ELSE LET r == Head(list_likert) IN
             IF txt_lang \notin DOMAIN rows[r].txt
             THEN raise([s EXCEPT !.subquestion.relevance = <<"1">>,
                                  !.subquestion.language = lang,
                                  !.subquestion.name = rows[r].code],
                        "KeyError")
             ELSE subquestion_multi_likert(
                      write_subquestion(
                          [s EXCEPT !.subquestion.relevance = <<"1">>,
                                    !.subquestion.language = lang,
                                    !.subquestion.name = rows[r].code,
                                    !.subquestion.text = rows[r].txt[txt_lang]],
                          r),
                      Tail(list_likert), lang, txt_lang))

\* for i in range(1, 9), from i on
RECURSIVE subquestion_ranking(_, _, _)
subquestion_ranking(st, lang, i) ==
    IF i > RankCount THEN st
    ELSE subquestion_ranking(
             write_subquestion(
                 [st EXCEPT !.subquestion.name = str(i),
                            !.subquestion.text = s_Rank \o str(i),
                            !.subquestion.language = lang,
                            !.subquestion.relevance = <<"1">>], 0),
             lang, i + 1)

\* the empty subquestion of a likert question: the text is not assigned
subquestion_likert(st, lang) ==
    write_subquestion(
        [st EXCEPT !.subquestion.name = s_SQ001,
                   !.subquestion.relevance = <<"1">>,
                   !.subquestion.language = lang], 0)

\* the three `if type_question == ...` of setup_subquestion, one by one
subquestion_if_multi_likert(st, type_question, lang, list_likert, txt_lang) ==
    IF type_question = s_multi_likert
    THEN subquestion_multi_likert(st, list_likert, lang, txt_lang)
    ELSE st

subquestion_if_ranking(st, type_question, lang) ==
    Then(st, LAMBDA s :
        IF s.ok /\ type_question = s_ranking
        THEN subquestion_ranking(s, lang, 1)
        ELSE s)

subquestion_if_likert(st, type_question, lang) ==
    Then(st, LAMBDA s :
        IF s.ok /\ type_question = s_likert
        THEN subquestion_likert(s, lang)
        ELSE s)

setup_subquestion(st, type_question, lang, list_likert, txt_lang) ==
    Then(st, LAMBDA s :
        IF ~s.ok THEN s
        ELSE subquestion_if_likert(
                 subquestion_if_ranking(
                     subquestion_if_multi_likert(s, type_question, lang,
                                                 list_likert, txt_lang),
                     type_question, lang),
                 type_question, lang))

\* get_answer: the lines of the file, each without its last character
get_answer(file_answer) ==
    [i \in 1..Len(AnswerFiles[file_answer]) |->
        SubSeq(AnswerFiles[file_answer][i], 1,
               Len(AnswerFiles[file_answer][i]) - 1)]

\* the template setup_answer picks, "" when the branch chain binds none
answer_template(type_question) ==
    CASE type_question = s_one_choice -> "one_choice_answer"
      [] type_question = s_multi_choice -> "multiple_choice_answer"
      [] type_question = s_likert -> "likert_answer"
      [] type_question = s_ranking -> "ranking_answer"
      [] OTHER -> ""

\* the text of an answer: the segment of the pass, else the first one
answer_text(text_answer, index) ==
    LET segments == split(text_answer, ";") IN
    IF index + 1 <= Len(segments)
    THEN strip(segments[index + 1], "\"")
    ELSE strip(segments[1], "\"")

\* for text_answer in get_answer(...), with the counter n
RECURSIVE answer_loop(_, _, _, _, _, _, _)
answer_loop(st, lines, n, type_question, r, index, lang) ==
    IF lines = << >> THEN st
    ELSE IF answer_template(type_question) = ""
    THEN raise(st, "UnboundLocalError")
    ELSE answer_loop(
             _write_row(st, [kind |-> "A",
                             tmpl |-> answer_template(type_question),
                             name |-> str(n),
                             text |-> answer_text(Head(lines), index),
                             language |-> lang, pass |-> index_lang,
                             origin |-> r]),
             Tail(lines), n + 1, type_question, r, index, lang)

setup_answer(st, type_question, r, index, lang) ==
    Then(st, LAMBDA s :
        IF ~s.ok THEN s
        ELSE IF rows[r].answer_file \notin DOMAIN AnswerFiles
        THEN raise(s, "FileNotFoundError")
        ELSE answer_loop(s, get_answer(rows[r].answer_file), 1,
                         type_question, r, index, lang))

\* get_txt_lang with a fault seeded: the position decides, not the code
get_txt_lang_by_index(lang, index) ==
    IF index # 0 THEN s_lang_trans \o str(index) ELSE s_question

get_txt_lang(lang, index) ==
    IF lang # "en" THEN s_lang_trans \o str(index) ELSE s_question

\* whether setup_condition ends with an exception: logical_element is bound
\* only when the bracketed list holds 'OR' or 'AND'
setup_condition_raises(condition) ==
    /\ HasChar(condition, "[")
    /\ LET list_to_compare == remove(split(condition, "[")[2], "]")
       IN  ~HasSub(list_to_compare, s_OR) /\ ~HasSub(list_to_compare, s_AND)

setup_condition(st, condition) ==
    Then(st, LAMBDA s :
        IF ~s.ok THEN s
        ELSE IF setup_condition_raises(condition)
        THEN raise(s, "UnboundLocalError")
        ELSE s)

\* the records written since out had n0 records and that name no row are
\* records of row r
originate(st, n0, r) ==
    Then(st, LAMBDA s :
        [s EXCEPT !.out = [i \in 1..Len(s.out) |->
            IF i > n0 /\ s.out[i].origin = 0
            THEN [s.out[i] EXCEPT !.origin = r]
            ELSE s.out[i]]])

\* the `if row['answer_format'].lower() == ...` of the loop body, one by one
if_one_choice(st, r, txt_lang, index, lang) ==
    Then(st, LAMBDA s :
        IF s.ok /\ lower(rows[r].answer_format) = s_one_choice
        THEN setup_answer(
                 setup_question(s, s_one_choice, r, txt_lang, lang),
                 s_one_choice, r, index, lang)
        ELSE s)

if_ranking(st, r, txt_lang, index, lang) ==
    Then(st, LAMBDA s :
        IF s.ok /\ lower(rows[r].answer_format) = s_ranking
        THEN setup_answer(
                 setup_subquestion(
                     setup_question(s, s_ranking, r, txt_lang, lang),
                     s_ranking, lang, << >>, None),
                 s_ranking, r, index, lang)
        ELSE s)

if_multiple_choices(st, r, txt_lang, index, lang) ==
    Then(st, LAMBDA s :
        IF s.ok /\ lower(rows[r].answer_format) = s_multiple_choices
        THEN setup_answer(
                 setup_question(s, s_multiple_choice, r, txt_lang, lang),
                 s_multi_choice, r, index, lang)
        ELSE s)

if_freenumeric(st, r, txt_lang, lang) ==
    Then(st, LAMBDA s :
        IF s.ok /\ lower(rows[r].answer_format) = s_freenumeric
        THEN setup_question(s, s_freenumeric, r, txt_lang, lang)
        ELSE s)

if_freetext(st, r, txt_lang, lang) ==
    Then(st, LAMBDA s :
        IF s.ok /\ lower(rows[r].answer_format) = s_freetext
        THEN setup_question(s, s_freetext, r, txt_lang, lang)
        ELSE s)

if_likert(st, r, txt_lang, index, lang) ==
    Then(st, LAMBDA s :
        IF s.ok /\ lower(rows[r].answer_format) = s_likert
        THEN setup_answer(
                 setup_subquestion(
                     setup_question(s, s_likert, r, txt_lang, lang),
                     s_likert, lang, << >>, None),
                 s_likert, r, index, lang)
        ELSE s)

if_ynna(st, r, txt_lang, lang) ==
    Then(st, LAMBDA s :
        IF s.ok /\ lower(rows[r].answer_format) = s_ynna
        THEN setup_question(s, s_ynna, r, txt_lang, lang)
        ELSE s)

\* the body of `for row in q` of a group of one row
singleton(st, r, txt_lang, index, lang) ==
    Then(st, LAMBDA s :
        originate(
            if_ynna(
             if_likert(
              if_freetext(
               if_freenumeric(
                if_multiple_choices(
                 if_ranking(
                  if_one_choice(
                   setup_condition(
                    check_adding_section(s, rows[r].section, lang, r),
                    rows[r].condition),
                   r, txt_lang, index, lang),
                  r, txt_lang, index, lang),
                 r, txt_lang, index, lang),
                r, txt_lang, lang),
               r, txt_lang, lang),
              r, txt_lang, index, lang),
             r, txt_lang, lang),
            Len(s.out), r))

\* the branch len(q) > 1: group is q as yielded, shuffled is q after the
\* shuffle (q itself when there is none)
compound(st, group, shuffled, txt_lang, index, lang) ==
    LET first == shuffled[1] IN
    IF lower(rows[first].answer_format) = s_likert
    THEN setup_answer(
             setup_subquestion(
                 setup_question(
                     check_adding_section(st, rows[group[1]].section, lang,
                                          group[1]),
                     s_multi_likert, first, txt_lang, lang),
                 s_multi_likert, lang, shuffled, txt_lang),
             s_likert, first, index, lang)
    ELSE IF lower(rows[first].answer_format) = s_ynna
    THEN setup_question(
             check_adding_section(st, rows[group[1]].section, lang, group[1]),
             s_ynna, first, txt_lang, lang)
    ELSE check_adding_section(st, rows[group[1]].section, lang, group[1])

\* what shuffle(q) can leave in q
Shuffles(group) ==
    IF Len(group) > 1 /\ rows[group[1]].random = s_Y
    THEN { [i \in 1..Len(group) |-> group[f[i]]] :
               f \in Permutations(1..Len(group)) }
    ELSE {group}

\* the body of `for q in self.group_likert(...)`
process_group(st, group, shuffled, txt_lang, index, lang) ==
    IF Len(group) > 1
    THEN compound(st, group, shuffled, txt_lang, index, lang)
    ELSE IF Len(group) = 1
    THEN singleton(st, group[1], txt_lang, index, lang)
    ELSE st

-----------------------------------------------------------------------------
(* create_header and create_survey_settings.  The lists of the two config   *)
(* modules are small stand-ins: a config record is a function from field    *)
(* names to values, a list to add pairs a record with its insert position.  *)

global_headers ==
    << [class |-> "S", name |-> "sid", text |-> "0"],
       [class |-> "S", name |-> "format", text |-> "G"] >>
header_to_modify == << [class |-> "S", name |-> "format", text |-> "A"] >>
header_to_add == << << [class |-> "S", name |-> "admin", text |-> "x"], 1 >> >>
global_settings ==
    << [class |-> "SL", name |-> "surveyls_welcometext", text |-> << >>],
       [class |-> "SL", name |-> "surveyls_endtext", text |-> << >>] >>
settings_to_modify == << >>
settings_to_add ==
    << << [class |-> "SL", name |-> "surveyls_email", text |-> << >>], 0 >> >>
survey_title == [lang \in {"en", "fr", "de"} |-> <<"title", lang>>]

\* the replacement of element in modified_list, element itself without one
to_modify_element(element, modified_list) ==
    LET same == { i \in 1..Len(modified_list) :
                      modified_list[i].name = element.name }
    IN  IF same = {} THEN element
        ELSE modified_list[CHOOSE i \in same : \A j \in same : i <= j]

_to_modify(original_list, modified_list) ==
    [i \in 1..Len(original_list) |->
        to_modify_element(original_list[i], modified_list)]

\* list.insert(i, x), for i >= 0
insert(list, i, x) ==
    LET k == IF i > Len(list) THEN Len(list) ELSE i
    IN  SubSeq(list, 1, k) \o <<x>> \o SubSeq(list, k + 1, Len(list))

RECURSIVE _to_add(_, _)
_to_add(original_list, list_to_add) ==
    IF list_to_add = << >> THEN original_list
    ELSE _to_add(insert(original_list, Head(list_to_add)[2],
                        Head(list_to_add)[1]),
                 Tail(list_to_add))

\* the text goes to the first element of that name
_add_text_message(full_list, message, type_message) ==
    LET named == { i \in 1..Len(full_list) :
                       full_list[i].name = "surveyls_" \o type_message \o "text" }
    IN  [i \in 1..Len(full_list) |->
            IF named # {} /\ i = (CHOOSE k \in named : \A j \in named : k <= j)
            THEN [full_list[i] EXCEPT !.text = message]
            ELSE full_list[i]]

\* the rendered content of the message file get_text opens
get_text(type_message, lang) ==
    IF lang # "en" THEN <<type_message, "_message_", lang, ".md">>
    ELSE <<type_message, "_message.md">>

\* the records of the header or of a settings block: the empty row updated
\* with the element; block tells the block of the record
RECURSIVE _record_list(_, _, _)
_record_list(written, list_to_copy, block) ==
    IF list_to_copy = << >> THEN written
    ELSE _record_list(
             Append(written,
                    Head(list_to_copy)
                        @@ [kind |-> Head(list_to_copy).class, pass |-> -1,
                            origin |-> 0, block |-> block, text |-> << >>,
                            language |-> ""]),
             Tail(list_to_copy), block)

\* the settings of one language, in the order they are recorded
settings_of(lang) ==
    LET survey_settings ==
            insert(_to_add(_to_modify(global_settings, settings_to_modify),
                           settings_to_add),
                   0, [class |-> "SL", name |-> "surveyls_title",
                       text |-> survey_title[lang]])
        with_messages ==
            _add_text_message(
                _add_text_message(survey_settings,
                                  get_text("welcome", lang), "welcome"),
                get_text("end", lang), "end")
    IN  [i \in 1..Len(with_messages) |->
            [language |-> lang] @@ with_messages[i]]

\* the blocks of the languages at positions i..last
RECURSIVE settings_loop(_, _, _)
settings_loop(written, i, last) ==
    IF i > last THEN written
    ELSE settings_loop(_record_list(written, settings_of(languages[i]), i),
                       i + 1, last)

\* the positions of the languages that have no survey title
untitled == { i \in 1..Len(languages) : languages[i] \notin DOMAIN survey_title }

-----------------------------------------------------------------------------
(* run and create_survey_questions *)

Init ==
    /\ rows \in SeqsUpTo(RowPool, MaxRows) \cup SeqsUpTo(LikertPool, MaxLikertRows)
    /\ languages \in LanguageLists
    /\ pc = "header"
    /\ error = ""
    /\ index_lang = 0
    /\ pass_txt_lang = None
    /\ nbr_section = -1
    /\ code_to_multiple_question = 0
    /\ GenInit
    /\ q = << >>
    /\ groups = << >>
    /\ subquestion = config_subquestion
    /\ out = << >>

\* run: create_header
CreateHeader ==
    /\ pc = "header"
    /\ out' = _record_list(out, _to_add(_to_modify(global_headers,
                                                   header_to_modify),
                                        header_to_add), 0)
    /\ pc' = "settings"
    /\ UNCHANGED <<rows, languages, error, index_lang, pass_txt_lang,
                   nbr_section, code_to_multiple_question, pos,
                   group_survey_q, previous_answer_format,
                   previous_file_answer, previous_code, q, groups,
                   subquestion>>

\* run: create_survey_settings, one block for every language of the list
CreateSurveySettings ==
    /\ pc = "settings"
    /\ IF untitled = {}
       THEN /\ out' = settings_loop(out, 1, Len(languages))
            /\ pc' = "start"
            /\ error' = error
       ELSE /\ out' = settings_loop(
                          out, 1,
                          (CHOOSE i \in untitled :
                               \A j \in untitled : i <= j) - 1)
            /\ pc' = "aborted"
            /\ error' = "KeyError"
    /\ UNCHANGED <<rows, languages, index_lang, pass_txt_lang,
                   nbr_section, code_to_multiple_question, pos,
                   group_survey_q, previous_answer_format,
                   previous_file_answer, previous_code, q, groups,
                   subquestion>>

\* StartPass with a fault seeded: the synthetic row is of section 1, so
\* that the call writes the header of the first section
StartPass_initial_header ==
    /\ pc = "start"
    /\ \E st \in { check_adding_section(
                       [ok |-> TRUE, error |-> "", out |-> out,
                        subquestion |-> subquestion,
                        counter |-> code_to_multiple_question, nbr |-> -1],
                       <<"1">>, languages[index_lang + 1], 0) } :
          /\ nbr_section' = st.nbr
          /\ out' = st.out
    /\ code_to_multiple_question' = 0
    /\ pos' = 1
    /\ group_survey_q' = << >>
    /\ previous_answer_format' = None
    /\ previous_file_answer' = None
    /\ previous_code' = None
    /\ q' = << >>
    /\ groups' = << >>
    /\ pass_txt_lang' = get_txt_lang(languages[index_lang + 1], index_lang)
    /\ pc' = "gen"
    /\ UNCHANGED <<rows, languages, error, index_lang, subquestion>>

\* StartPass with a fault seeded: the multi-question counter is not reset
StartPass_keeps_counter ==
    /\ pc = "start"
    /\ \E st \in { check_adding_section(
                       [ok |-> TRUE, error |-> "", out |-> out,
                        subquestion |-> subquestion,
                        counter |-> code_to_multiple_question, nbr |-> -1],
                       <<"0">>, languages[index_lang + 1], 0) } :
          /\ nbr_section' = st.nbr
          /\ out' = st.out
    /\ pos' = 1
    /\ group_survey_q' = << >>
    /\ previous_answer_format' = None
    /\ previous_file_answer' = None
    /\ previous_code' = None
    /\ q' = << >>
    /\ groups' = << >>
    /\ pass_txt_lang' = get_txt_lang(languages[index_lang + 1], index_lang)
    /\ pc' = "gen"
    /\ UNCHANGED <<rows, languages, error, index_lang, subquestion,
                   code_to_multiple_question>>

\* the head of one iteration of `for index_lang, lang in enumerate(...)`
StartPass ==
    /\ pc = "start"
    /\ \E st \in { check_adding_section(
                       [ok |-> TRUE, error |-> "", out |-> out,
                        subquestion |-> subquestion,
                        counter |-> code_to_multiple_question, nbr |-> -1],
                       <<"0">>, languages[index_lang + 1], 0) } :
          /\ nbr_section' = st.nbr
          /\ out' = st.out
    /\ code_to_multiple_question' = 0
    /\ pos' = 1
    /\ group_survey_q' = << >>
    /\ previous_answer_format' = None
    /\ previous_file_answer' = None
    /\ previous_code' = None
    /\ q' = << >>
    /\ groups' = << >>
    /\ pass_txt_lang' = get_txt_lang(languages[index_lang + 1], index_lang)
    /\ pc' = "gen"
    /\ UNCHANGED <<rows, languages, error, index_lang, subquestion>>

\* the body of the loop over the groups, for the group just yielded
EmitGroup ==
    /\ pc = "emit"
    /\ \E shuffled \in Shuffles(q) :
       \E st \in { process_group(
                       [ok |-> TRUE, error |-> "", out |-> out,
                        subquestion |-> subquestion,
                        counter |-> code_to_multiple_question,
                        nbr |-> nbr_section],
                       q, shuffled, pass_txt_lang,
                       index_lang, languages[index_lang + 1]) } :
          /\ q' = shuffled
          /\ out' = st.out
          /\ subquestion' = st.subquestion
          /\ code_to_multiple_question' = st.counter
          /\ nbr_section' = st.nbr
          /\ error' = st.error
          /\ pc' = IF st.ok THEN "gen" ELSE "aborted"
    /\ UNCHANGED <<rows, languages, index_lang, pass_txt_lang, pos, group_survey_q,
                   previous_answer_format, previous_file_answer,
                   previous_code, groups>>

\* the generator is exhausted: the pass ends, the next language follows
EndPass ==
    /\ pc = "gen"
    /\ pos = Len(rows) + 2
    /\ index_lang' = index_lang + 1
    /\ pc' = IF index_lang + 1 < Len(languages) THEN "start" ELSE "done"
    /\ UNCHANGED <<rows, languages, error, pass_txt_lang, nbr_section,
                   code_to_multiple_question, pos, group_survey_q,
                   previous_answer_format, previous_file_answer,
                   previous_code, q, groups, subquestion, out>>

Next ==
    \/ CreateHeader
    \/ CreateSurveySettings
    \/ StartPass
    \/ GroupLikertStep
    \/ GroupLikertEnd
    \/ EmitGroup
    \/ EndPass

Spec == Init /\ [][Next]_vars

\* the same run over every language list, with short row sequences
InitLang ==
    /\ rows \in SeqsUpTo(LangPool, MaxLangRows)
    /\ languages \in AllLanguageLists
    /\ pc = "header"
    /\ error = ""
    /\ index_lang = 0
    /\ pass_txt_lang = None
    /\ nbr_section = -1
    /\ code_to_multiple_question = 0
    /\ GenInit
    /\ q = << >>
    /\ groups = << >>
    /\ subquestion = config_subquestion
    /\ out = << >>

SpecLang == InitLang /\ [][Next]_vars

-----------------------------------------------------------------------------
(* Vocabulary of the properties. *)

RECURSIVE Concat(_)
Concat(gs) == IF gs = << >> THEN << >> ELSE Head(gs) \o Concat(Tail(gs))

Iota(n) == [i \in 1..n |-> i]

Exhausted == pos = Len(rows) + 2

\* the rows the generator has taken
Taken == 1..(IF pos > Len(rows) THEN Len(rows) ELSE pos - 1)

\* the rows that start a group, yielded or still the working group
Starts ==
    { groups[k][1] : k \in { k \in 1..Len(groups) : groups[k] # << >> } }
    \cup (IF group_survey_q # << >> THEN {group_survey_q[1]} ELSE {})

IsLikert(r) == lower(r.answer_format) = s_likert
IsYnna(r) == lower(r.answer_format) = s_ynna
Unconditioned(r) == r.condition = << >>

RECURSIVE without_digits(_)
without_digits(s) ==
    IF s = << >> THEN << >>
    ELSE IF Head(s) \in {"0", "1", "2", "3", "4", "5", "6", "7", "8", "9"}
    THEN without_digits(Tail(s))
    ELSE <<Head(s)>> \o without_digits(Tail(s))

RECURSIVE without_trailing_digits(_)
without_trailing_digits(s) ==
    IF s # << >> /\ s[Len(s)] \in {"0", "1", "2", "3", "4", "5", "6", "7", "8", "9"}
    THEN without_trailing_digits(SubSeq(s, 1, Len(s) - 1))
    ELSE s

-----------------------------------------------------------------------------
(* C1: the groups group_likert yields, concatenated in yield order, are    *)
(* the input rows in input order: no row is dropped, duplicated or         *)
(* reordered (while the generator runs, the yielded groups followed by the *)
(* working group are the rows taken so far).                               *)
C1_GroupsConcatenateToInput ==
    IF Exhausted
    THEN Concat(groups) = Iota(Len(rows))
    ELSE Concat(groups) \o group_survey_q = Iota(pos - 1)

C1_Witness ==
    /\ Exhausted
    /\ Len(rows) = 3
    /\ groups = << <<1, 2>>, <<3>> >>

(* C2: a row with a non-empty condition is always yielded in a group of    *)
(* size exactly 1.                                                         *)
C2_ConditionedRowAlone ==
    \A k \in 1..Len(groups) :
        \A i \in 1..Len(groups[k]) :
            ~Unconditioned(rows[groups[k][i]]) => Len(groups[k]) = 1

(* C7: an unconditioned likert row that finds the working group non-empty  *)
(* is appended to it exactly when the row before it is a likert row with   *)
(* the same answer_file; otherwise the working group is yielded and the    *)
(* row starts a new group.  Three unconditioned likert rows with files     *)
(* A, A, B give the groups [row1, row2], [row3].                           *)
C7_LikertBoundary ==
    /\ \A j \in Taken :
          (j > 1 /\ IsLikert(rows[j]) /\ Unconditioned(rows[j])) =>
              /\ (j \notin Starts) <=>
                     (/\ IsLikert(rows[j - 1])
                      /\ rows[j - 1].answer_file = rows[j].answer_file)
              /\ (j \in Starts) =>
                     \E k \in 1..Len(groups) :
                         /\ groups[k] # << >>
                         /\ groups[k][Len(groups[k])] = j - 1
    /\ (/\ Exhausted
        /\ Len(rows) = 3
        /\ \A j \in 1..3 : IsLikert(rows[j]) /\ Unconditioned(rows[j])
        /\ rows[1].answer_file = rows[2].answer_file
        /\ rows[2].answer_file # rows[3].answer_file)
       => groups = << <<1, 2>>, <<3>> >>

C7_Witness ==
    /\ Exhausted
    /\ Len(rows) = 3
    /\ \A j \in 1..3 : IsLikert(rows[j]) /\ Unconditioned(rows[j])
    /\ rows[1].answer_file = f_A
    /\ rows[2].answer_file = f_A
    /\ rows[3].answer_file = f_B
    /\ groups = << <<1, 2>>, <<3>> >>

\* two adjacent unconditioned y/n/na rows are in one group exactly when
\* stem gives them the same value
YnnaMergedIffStem(stem(_)) ==
    \A j \in Taken :
        (/\ j > 1
         /\ IsYnna(rows[j]) /\ Unconditioned(rows[j])
         /\ IsYnna(rows[j - 1]) /\ Unconditioned(rows[j - 1])) =>
            ((j \notin Starts) <=> (stem(rows[j].code) = stem(rows[j - 1].code)))

\* an unconditioned y/n/na row whose stem differs from the stem of the row
\* before it starts a new group
YnnaOtherStemStarts(stem(_)) ==
    \A j \in Taken :
        (/\ j > 1
         /\ IsYnna(rows[j]) /\ Unconditioned(rows[j])
         /\ stem(rows[j].code) # stem(rows[j - 1].code)) => j \in Starts

(* C8, as claimed: the stem kept for y/n/na grouping is the code without   *)
(* its trailing digits, digits elsewhere being kept, and two adjacent      *)
(* unconditioned y/n/na rows are merged exactly when these stems are equal.*)
C8_TrailingDigitStem ==
    /\ \A j \in Taken :
          j = pos - 1 => previous_code = without_trailing_digits(rows[j].code)
    /\ YnnaMergedIffStem(without_trailing_digits)
    /\ YnnaOtherStemStarts(without_trailing_digits)

(* C8, amended: the stem kept for y/n/na grouping is the code without any  *)
(* of its digits, wherever they stand, and two adjacent unconditioned      *)
(* y/n/na rows are merged exactly when these stems are equal.              *)
C8_AllDigitStem ==
    /\ \A j \in Taken :
          j = pos - 1 => previous_code = without_digits(rows[j].code)
    /\ YnnaMergedIffStem(without_digits)
    /\ YnnaOtherStemStarts(without_digits)

C8_Witness ==
    /\ Len(rows) >= 2
    /\ pos > 2
    /\ rows[1].code = <<"p", "1", "a">>
    /\ rows[2].code = <<"p", "2", "a">>
    /\ IsYnna(rows[1]) /\ Unconditioned(rows[1])
    /\ IsYnna(rows[2]) /\ Unconditioned(rows[2])
    /\ group_survey_q = <<1, 2>>

-----------------------------------------------------------------------------
(* Vocabulary of the properties of the record stream. *)

\* the section index a row stands for
SectionIndex(r) == int(rows[r].section) - 1

\* the passes that ran to their end
CompletedPasses == 0..(index_lang - 1)

\* positions of the header records of section index n written in pass p
Headers(p, n) ==
    { i \in 1..Len(out) :
          /\ out[i].pass = p
          /\ out[i].kind = "G"
          /\ out[i].scale = <<"G">> \o str(n) }

\* positions of the header records written before position i in its pass
HeadersBefore(i) ==
    { j \in 1..(i - 1) : out[j].kind = "G" /\ out[j].pass = out[i].pass }

\* the formats the dispatcher knows
Recognised(r) ==
    lower(rows[r].answer_format) \in
        { s_one_choice, s_ranking, s_multiple_choices, s_freenumeric,
          s_freetext, s_likert, s_ynna }

\* the consumer has worked through the group q of exactly one row
SingletonDone == pc \in {"gen", "aborted"} /\ Len(q) = 1

\* the groups of this pass the consumer has worked through
DoneGroups ==
    SubSeq(groups, 1, IF pc = "emit" THEN Len(groups) - 1 ELSE Len(groups))

CompoundLikert(g) == Len(g) > 1 /\ IsLikert(rows[g[1]])

\* the header records of the compound likert groups of pass p, in order
LikertHeaders(p) ==
    SelectSeq(out, LAMBDA rec :
        rec.pass = p /\ rec.kind = "Q" /\ rec.type = s_multi_likert)

-----------------------------------------------------------------------------
(* C3: in every language pass that ran to its end, every section number    *)
(* carried by an input row has exactly one section-header record.          *)
C3_OneHeaderPerSection ==
    \A p \in CompletedPasses :
        \A r \in 1..Len(rows) :
            Cardinality(Headers(p, SectionIndex(r))) = 1

(* C4: for every question or subquestion record built from a row, the most *)
(* recent section header written before it in its pass is the header of    *)
(* the row's own section.                                                  *)
C4_RecordUnderOwnHeader ==
    \A i \in 1..Len(out) :
        (out[i].kind \in {"Q", "SQ"} /\ out[i].origin # 0) =>
            /\ HeadersBefore(i) # {}
            /\ LET h == CHOOSE j \in HeadersBefore(i) :
                            \A k \in HeadersBefore(i) : k <= j
               IN  out[h].scale = <<"G">> \o str(SectionIndex(out[i].origin))

(* C5: once the consumer has taken a singleton row whose format is none of *)
(* the seven known ones, the run is aborted.                               *)
C5_UnknownFormatAborts ==
    (SingletonDone /\ ~Recognised(q[1])) => pc = "aborted"

(* C6: whatever the condition of a singleton row of a known format, the    *)
(* run is not aborted at that row and the row's question record is written.*)
C6_ConditionNeverAborts ==
    (SingletonDone /\ Recognised(q[1])) =>
        /\ pc # "aborted"
        /\ \E i \in 1..Len(out) :
              /\ out[i].kind = "Q"
              /\ out[i].pass = index_lang
              /\ out[i].origin = q[1]
              /\ out[i].name = rows[q[1]].code

(* C9: in a language pass the multi-question counter is the number of      *)
(* compound likert groups worked through so far (0 at the start, one more  *)
(* for each compound likert group, unchanged by singletons and by compound *)
(* y/n/na groups); the k-th compound likert header of a pass, k from 0, is *)
(* named 'likert' + k, the names of a pass are pairwise distinct, and      *)
(* every pass that ran to its end has the same names.                      *)
C9_CounterCountsCompoundLikert ==
    /\ pc \in {"gen", "emit"} =>
          code_to_multiple_question =
              Cardinality({ k \in 1..Len(DoneGroups) :
                                CompoundLikert(DoneGroups[k]) })
    /\ \A p \in 0..index_lang :
          LET H == LikertHeaders(p) IN
          /\ \A k \in 1..Len(H) :
                H[k].name = <<"l", "i", "k", "e", "r", "t">> \o str(k - 1)
          /\ \A k, m \in 1..Len(H) : k # m => H[k].name # H[m].name
    /\ \A p, p2 \in CompletedPasses :
          [k \in 1..Len(LikertHeaders(p)) |-> LikertHeaders(p)[k].name]
          = [k \in 1..Len(LikertHeaders(p2)) |-> LikertHeaders(p2)[k].name]

C9_Witness ==
    /\ pc = "done"
    /\ code_to_multiple_question = 2
    /\ Len(LikertHeaders(0)) = 2
    /\ Len(LikertHeaders(1)) = 2
    /\ \E k \in 1..Len(groups) : Len(groups[k]) > 1 /\ IsYnna(rows[groups[k][1]])

(* C10: the question record of a singleton likert row is followed by       *)
(* exactly one subquestion record, named 'SQ001', with relevance '1' and   *)
(* an empty text, and then by the answer records of the row.               *)
C10_LikertEmptySubquestion ==
    \A i \in 1..Len(out) :
        (out[i].kind = "Q" /\ out[i].type = s_likert) =>
            /\ i + 2 <= Len(out)
            /\ out[i + 1].kind = "SQ"
            /\ out[i + 1].name = <<"S", "Q", "0", "0", "1">>
            /\ out[i + 1].relevance = <<"1">>
            /\ out[i + 1].text = << >>
            /\ out[i + 2].kind = "A"
            /\ out[i + 2].origin = out[i].origin

-----------------------------------------------------------------------------
\* the records of row r written in pass p, section headers left out
RowRecords(p, r) ==
    SelectSeq(out, LAMBDA rec : rec.pass = p /\ rec.origin = r /\ rec.kind # "G")

IsRanking(r) == lower(r.answer_format) = s_ranking

(* C11: the records written for a singleton row of format ranking are, in  *)
(* this order: one question record named after the row's code, exactly 8   *)
(* subquestion records named '1' to '8' with the texts 'Rank1' to 'Rank8', *)
(* relevance '1' and the language of the pass, then the answer records,    *)
(* whatever the other fields of the row are.                               *)
C11_RankingShape ==
    (SingletonDone /\ IsRanking(rows[q[1]])) =>
        LET recs == RowRecords(index_lang, q[1])
        IN  /\ Len(recs) >= 9
            /\ recs[1].kind = "Q"
            /\ recs[1].name = rows[q[1]].code
            /\ \A k \in 1..8 :
                   /\ recs[1 + k].kind = "SQ"
                   /\ recs[1 + k].name = str(k)
                   /\ recs[1 + k].text = <<"R", "a", "n", "k">> \o str(k)
                   /\ recs[1 + k].relevance = <<"1">>
                   /\ recs[1 + k].language = languages[index_lang + 1]
            /\ \A k \in 10..Len(recs) : recs[k].kind = "A"

-----------------------------------------------------------------------------
\* the answer records among the records of row r written in pass p
AnswerRecords(p, r) ==
    SelectSeq(out, LAMBDA rec : rec.pass = p /\ rec.origin = r /\ rec.kind = "A")

\* a line of an answer file without its line terminator
OptionLine(raw) ==
    IF raw # << >> /\ raw[Len(raw)] = "\n" THEN SubSeq(raw, 1, Len(raw) - 1)
    ELSE raw

\* the segment of an option line for translation index p, quotes stripped
OptionText(raw, p) ==
    LET segments == split(OptionLine(raw), ";")
    IN  strip(IF p + 1 <= Len(segments) THEN segments[p + 1] ELSE segments[1],
              "\"")

\* the question records after which setup_answer is called
AnswersFollow(rec) ==
    /\ rec.kind = "Q"
    /\ rec.type \in {s_one_choice, s_ranking, s_multiple_choice, s_likert,
                     s_multi_likert}
    /\ rows[rec.origin].answer_file \in DOMAIN AnswerFiles

(* C12: setup_answer writes exactly one answer record per option line of   *)
(* the answer file, in file order, named '1', '2', ...; the text of the    *)
(* record is the segment of the line at the translation index of the pass  *)
(* when the line has that many segments, else the segment at index 0, with *)
(* the surrounding double quotes stripped; a missing segment never aborts  *)
(* the run.                                                                *)
C12_AnswerPerOptionLine ==
    /\ error # "IndexError"
    /\ \A i \in 1..Len(out) :
           AnswersFollow(out[i]) =>
               LET file == AnswerFiles[rows[out[i].origin].answer_file]
                   answers == AnswerRecords(out[i].pass, out[i].origin)
               IN  /\ Len(answers) = Len(file)
                   /\ \A n \in 1..Len(file) :
                          /\ answers[n].name = str(n)
                          /\ answers[n].text = OptionText(file[n], out[i].pass)

-----------------------------------------------------------------------------
\* a language pass is running
InPass == pc \in {"gen", "emit"}

\* the text column named by the position alone
FieldOfIndex(i) == IF i = 0 THEN s_question ELSE s_lang_trans \o str(i)

\* the text column named by the language code at position i
FieldOfLanguage(i) ==
    IF languages[i + 1] = "en" THEN s_question ELSE s_lang_trans \o str(i)

\* 'en' stands first in the language list and nowhere else
EnglishFirstOnly ==
    /\ languages[1] = "en"
    /\ \A j \in 2..Len(languages) : languages[j] # "en"

\* the question records that carry the text of their row
TextedQuestion(rec) == rec.kind = "Q" /\ rec.type # s_multi_likert

(* C13, as stated: in the pass of the language at position i the text      *)
(* field is 'question' when i = 0 and 'lang_trans' + i when i > 0,         *)
(* whatever language code stands at position i.                            *)
C13_TextFieldByIndex ==
    InPass => pass_txt_lang = FieldOfIndex(index_lang)

(* C13, amended: the text field of the pass at position i is 'question'    *)
(* exactly when the language code at position i is 'en' and                *)
(* 'lang_trans' + i for every other code; every question record takes its  *)
(* text from that column; for a list with 'en' first and nowhere else this *)
(* is 'question' for i = 0 and 'lang_trans' + i for i > 0.                 *)
C13_TextFieldByLanguage ==
    /\ InPass => pass_txt_lang = FieldOfLanguage(index_lang)
    /\ (InPass /\ EnglishFirstOnly) => pass_txt_lang = FieldOfIndex(index_lang)
    /\ \A i \in 1..Len(out) :
           TextedQuestion(out[i]) =>
               /\ FieldOfLanguage(out[i].pass) \in DOMAIN rows[out[i].origin].txt
               /\ out[i].text =
                      rows[out[i].origin].txt[FieldOfLanguage(out[i].pass)]

\* the pass of an 'en' that does not stand first has written a question
\* with the text of the 'question' column
C13_Witness ==
    /\ InPass
    /\ index_lang > 0
    /\ languages[index_lang + 1] = "en"
    /\ pass_txt_lang = s_question
    /\ \E i \in 1..Len(out) :
           /\ TextedQuestion(out[i])
           /\ out[i].pass = index_lang
           /\ out[i].text = rows[out[i].origin].txt[s_question]

-----------------------------------------------------------------------------
(* group_likert as a function of the row sequence: the loop of the         *)
(* generator folded over indict, the groups collected in yield order.      *)

\* the loop body for the row at position i; g holds the locals of the
\* generator and the groups yielded so far
group_likert_body(g, indict, i) ==
    LET y == yields(indict[i], g.group_survey_q, g.previous_answer_format,
                    g.previous_file_answer, g.previous_code)
    IN  [group_survey_q |-> group_after(g.group_survey_q, i, y),
         previous_answer_format |-> lower(indict[i].answer_format),
         previous_file_answer |-> indict[i].answer_file,
         previous_code |-> current_code(indict[i].code),
         yielded |-> IF y THEN Append(g.yielded, g.group_survey_q)
                     ELSE g.yielded]

RECURSIVE group_likert_from(_, _, _)
group_likert_from(g, indict, i) ==
    IF i > Len(indict) THEN Append(g.yielded, g.group_survey_q)
    ELSE group_likert_from(group_likert_body(g, indict, i), indict, i + 1)

group_likert(indict) ==
    group_likert_from([group_survey_q |-> << >>,
                       previous_answer_format |-> None,
                       previous_file_answer |-> None,
                       previous_code |-> None,
                       yielded |-> << >>], indict, 1)

\* the other value of a field that takes two values
Flip(v, a, b) == IF v = a THEN b ELSE a

\* rows that agree with r on answer_format, condition, answer_file and code
RowVariants(r) ==
    { r,
      [r EXCEPT !.section = Flip(r.section, <<"1">>, <<"2">>)],
      [r EXCEPT !.other = Flip(r.other, s_Y, s_N),
                !.random = Flip(r.random, s_Y, s_N),
                !.txt = [k \in DOMAIN r.txt |-> <<"Z">> \o r.txt[k]]] }

\* the row sequences that agree with rs position by position on these fields
RECURSIVE Variants(_)
Variants(rs) ==
    IF rs = << >> THEN { << >> }
    ELSE { <<v>> \o t : v \in RowVariants(Head(rs)), t \in Variants(Tail(rs)) }

(* C14: two row sequences of equal length whose rows agree position by     *)
(* position on answer_format, condition, answer_file and code are split by *)
(* group_likert at the same positions, whatever their texts, section,      *)
(* other and random fields are: the groups the generator has yielded for   *)
(* rows are the groups of every such sequence.                             *)
C14_GroupingReadsFourFields ==
    (Exhausted /\ pc = "gen") =>
        \A other \in Variants(rows) : group_likert(other) = groups

\* a run that merged rows into groups and kept others apart, while some
\* agreeing sequence differs from rows in every row
C14_Witness ==
    /\ Exhausted
    /\ pc = "gen"
    /\ Len(rows) >= 3
    /\ Len(groups) = 2
    /\ \E other \in Variants(rows) : \A i \in 1..Len(rows) : other[i] # rows[i]

-----------------------------------------------------------------------------
(* C15: every group yielded by group_likert is non-empty, for every finite *)
(* input row sequence, the empty one included.                             *)
C15_GroupsNonEmpty ==
    /\ \A k \in 1..Len(groups) : groups[k] # << >>
    /\ pc = "emit" => q # << >>

-----------------------------------------------------------------------------
\* a record as the outfile shows it: without the row it was written for
Visible(rec) == [f \in DOMAIN rec \ {"origin"} |-> rec[f]]

\* the records of o after its first n records, as a set
RecordSet(o, n) == { Visible(o[i]) : i \in (n + 1)..Len(o) }

\* the consumer is about to work through a group of several rows that asks
\* for a random order
ShuffledGroupNext == pc = "emit" /\ Len(q) > 1 /\ rows[q[1]].random = s_Y

\* what the consumer writes for the group q when the order of q is kept
Unshuffled ==
    process_group([ok |-> TRUE, error |-> "", out |-> out,
                   subquestion |-> subquestion,
                   counter |-> code_to_multiple_question,
                   nbr |-> nbr_section],
                  q, q, pass_txt_lang, index_lang, languages[index_lang + 1])

(* C16: when the first row of a group of several rows has random = 'Y',    *)
(* the shuffle changes only the order of the records written for the       *)
(* group: the set of records, the grouping and the multi-question counter  *)
(* are those of the run without the shuffle, for compound likert and for   *)
(* compound y/n/na groups.                                                 *)
C16_ShuffleOnlyReorders ==
    [][ShuffledGroupNext =>
           /\ RecordSet(out', Len(out)) = RecordSet(Unshuffled.out, Len(out))
           /\ Len(out') = Len(Unshuffled.out)
           /\ code_to_multiple_question' = Unshuffled.counter
           /\ groups' = groups]_vars

-----------------------------------------------------------------------------
\* the consumer has worked through the group q of several likert rows
CompoundLikertDone == pc = "gen" /\ Len(q) > 1 /\ IsLikert(rows[q[1]])

\* the rows of a group, as a set
Members(g) == { g[k] : k \in 1..Len(g) }

\* the records of the group g written in pass p, section headers left out
GroupRecords(p, g) ==
    SelectSeq(out, LAMBDA rec :
        rec.pass = p /\ rec.origin \in Members(g) /\ rec.kind # "G")

(* C17: for a group of several likert rows the records written are, in     *)
(* this order: one header question named 'likert' + counter with an empty  *)
(* text; one subquestion per row of the group, in the input order of the   *)
(* group when random is not 'Y', named after the row's code, with the text *)
(* of the row in the text field of the pass and relevance '1'; then the    *)
(* answer scale of the group's answer file, once.  The group's records are *)
(* the last records of the outfile and there are no others.                *)
C17_CompoundLikertShape ==
    CompoundLikertDone =>
        LET yielded == groups[Len(groups)]
            file == AnswerFiles[rows[yielded[1]].answer_file]
            recs == GroupRecords(index_lang, q)
            n == Len(q)
        IN  /\ Len(recs) = 1 + n + Len(file)
            /\ recs = SubSeq(out, Len(out) - Len(recs) + 1, Len(out))
            /\ recs[1].kind = "Q"
            /\ recs[1].name =
                   <<"l", "i", "k", "e", "r", "t">>
                       \o str(code_to_multiple_question - 1)
            /\ recs[1].text = << >>
            /\ \A k \in 1..n :
                   /\ recs[1 + k].kind = "SQ"
                   /\ recs[1 + k].name = rows[q[k]].code
                   /\ recs[1 + k].text =
                          rows[q[k]].txt[FieldOfLanguage(index_lang)]
                   /\ recs[1 + k].relevance = <<"1">>
            /\ Members(q) = Members(yielded) /\ Len(q) = Len(yielded)
            /\ rows[yielded[1]].random # s_Y => q = yielded
            /\ \A k \in 1..Len(file) :
                   /\ recs[1 + n + k].kind = "A"
                   /\ recs[1 + n + k].name = str(k)

\* a group of two likert rows of different codes, written in their input
\* order in the second pass
C17_Witness ==
    /\ CompoundLikertDone
    /\ index_lang = 1
    /\ Len(q) = 2
    /\ rows[q[1]].random # s_Y
    /\ rows[q[1]].code # rows[q[2]].code
    /\ Len(GroupRecords(1, q)) = 5

-----------------------------------------------------------------------------
\* the positions of the section headers among the records written by a step
NewHeaders(before, after) ==
    { i \in (Len(before) + 1)..Len(after) : after[i].kind = "G" }

\* the effect of check_adding_section(row, t) for a row of section s, seen
\* on the step of the consumer that starts with the call
SectionCallEffect(t, s, lang, before, after, returned) ==
    IF s - 1 = t
    THEN /\ NewHeaders(before, after) = {}
         /\ returned = t
    ELSE /\ NewHeaders(before, after) = {Len(before) + 1}
         /\ after[Len(before) + 1].scale = <<"G">> \o str(s - 1)
         /\ after[Len(before) + 1].language = lang
         /\ returned = s - 1

(* C18: check_adding_section, called with the tracked index t for a row of *)
(* section s, writes no record and returns t when s - 1 = t, and otherwise *)
(* writes exactly one section header with type/scale 'G' + (s - 1) and the *)
(* language of the pass and returns s - 1; it leaves the multi-question    *)
(* counter and the state of the grouping unchanged.  Seen on the calls of  *)
(* the pipeline: the synthetic call at the head of a pass and the call     *)
(* that opens the work on every group.                                     *)
C18_SectionTrackerEffect ==
    [][/\ pc = "start" =>
              /\ SectionCallEffect(-1, 0, languages[index_lang + 1],
                                   out, out', nbr_section')
              /\ out' = out
              /\ code_to_multiple_question' = 0
       /\ (pc = "emit" /\ q # << >>) =>
              /\ SectionCallEffect(nbr_section, int(rows[q[1]].section),
                                   languages[index_lang + 1],
                                   out, out', nbr_section')
              /\ SubSeq(out', 1, Len(out)) = out
              /\ code_to_multiple_question' =
                     code_to_multiple_question
                         + (IF CompoundLikert(q) THEN 1 ELSE 0)
              /\ UNCHANGED <<pos, group_survey_q, previous_answer_format,
                             previous_file_answer, previous_code, groups>>
              /\ (~Recognised(q[1]) /\ Len(q) = 1) =>
                     Len(out') - Len(out) = Cardinality(NewHeaders(out, out'))
      ]_vars

\* a pass went from section 2 back to section 1: both calls wrote a header,
\* and a call for the section already open wrote none
C18_Witness ==
    /\ pc = "done"
    /\ Len(rows) = 3
    /\ SectionIndex(1) = 1
    /\ SectionIndex(2) = 0
    /\ SectionIndex(3) = 0
    /\ Len(groups) = 3
    /\ Cardinality(Headers(1, 0)) = 1
    /\ Cardinality(Headers(1, 1)) = 1

-----------------------------------------------------------------------------
\* the part of the outfile a record belongs to: 0 the global header, 1 the
\* settings blocks, 2 the questions
Phase(rec) == IF rec.kind = "S" THEN 0 ELSE IF rec.kind = "SL" THEN 1 ELSE 2

\* the title records of the settings block of the language at position l
Titles(l) ==
    { i \in 1..Len(out) :
          /\ out[i].kind = "SL"
          /\ out[i].block = l
          /\ out[i].name = "surveyls_title" }

\* a language pass has just started
AtPassStart == pc = "gen" /\ pos = 1

(* C19: the outfile is ordered: the global header records first, then one  *)
(* settings block per language in the order of the language list, then the *)
(* question records, those of the language at position i before those of   *)
(* the language at position i + 1; and at the start of every language pass *)
(* the tracked section index is -1 and the multi-question counter is 0,    *)
(* whatever the pass before left in them.                                  *)
C19_StreamOrder ==
    /\ \A i \in 1..(Len(out) - 1) :
           /\ Phase(out[i]) <= Phase(out[i + 1])
           /\ (out[i].kind = "SL" /\ out[i + 1].kind = "SL") =>
                  out[i].block <= out[i + 1].block
           /\ (Phase(out[i]) = 2 /\ Phase(out[i + 1]) = 2) =>
                  out[i].pass <= out[i + 1].pass
    /\ \A i \in 1..Len(out) :
           /\ out[i].kind = "SL" => out[i].language = languages[out[i].block]
           /\ Phase(out[i]) = 2 => out[i].language = languages[out[i].pass + 1]
    /\ pc \notin {"header", "settings"} =>
           /\ out # << >>
           /\ out[1].kind = "S"
           /\ \A l \in 1..Len(languages) : Cardinality(Titles(l)) = 1
    /\ AtPassStart => (nbr_section = -1 /\ code_to_multiple_question = 0)

\* the second pass starts after a first pass that wrote the header of the
\* second section and a compound likert header
C19_Witness ==
    /\ AtPassStart
    /\ index_lang = 1
    /\ Headers(0, 1) # {}
    /\ Len(LikertHeaders(0)) > 0

-----------------------------------------------------------------------------
\* the formats whose question is followed by answers alone
ChoiceFormats == { s_one_choice, s_multiple_choices }

\* the formats that are written as one question record and nothing else
BareFormats == { s_freenumeric, s_freetext, s_ynna }

\* rec is the question record of row r: its name and its 'other' flag
QuestionOf(rec, r) ==
    /\ rec.kind = "Q"
    /\ rec.name = rows[r].code
    /\ rec.other = (IF rows[r].other = s_Y THEN s_Y ELSE s_N)

\* the consumer has worked through the group q of several y/n/na rows
CompoundYnnaDone ==
    pc \in {"gen", "aborted"} /\ Len(q) > 1 /\ IsYnna(rows[q[1]])

(* C20: a singleton row of format 'one choice' or 'multiple choices' is    *)
(* written as one question record followed by its answer records, without  *)
(* subquestion; one of format 'freenumeric', 'freetext' or 'y/n/na' as     *)
(* exactly one question record; a group of several y/n/na rows as exactly  *)
(* one question record.  The question record is named after the row's code *)
(* and its 'other' field is 'Y' exactly when the row's is (for a group:    *)
(* the code and the flag of one row of the group).                         *)
C20_SingletonShapes ==
    /\ (SingletonDone /\ lower(rows[q[1]].answer_format) \in ChoiceFormats
            /\ rows[q[1]].answer_file \in DOMAIN AnswerFiles) =>
           LET recs == RowRecords(index_lang, q[1])
           IN  /\ Len(recs) = 1 + Len(AnswerFiles[rows[q[1]].answer_file])
               /\ QuestionOf(recs[1], q[1])
               /\ \A k \in 2..Len(recs) : recs[k].kind = "A"
    /\ (SingletonDone /\ lower(rows[q[1]].answer_format) \in BareFormats) =>
           LET recs == RowRecords(index_lang, q[1])
           IN  /\ Len(recs) = 1
               /\ QuestionOf(recs[1], q[1])
    /\ CompoundYnnaDone =>
           LET recs == GroupRecords(index_lang, q)
           IN  /\ Len(recs) = 1
               /\ \E r \in Members(q) : QuestionOf(recs[1], r)

-----------------------------------------------------------------------------
\* all rows of the group g are likert rows of one answer file
LikertOfOneFile(g) ==
    \A i \in 1..Len(g) :
        /\ IsLikert(rows[g[i]])
        /\ rows[g[i]].answer_file = rows[g[1]].answer_file

\* all rows of the group g are y/n/na rows of one code stem
YnnaOfOneStem(g) ==
    \A i \in 1..Len(g) :
        /\ IsYnna(rows[g[i]])
        /\ without_digits(rows[g[i]].code) = without_digits(rows[g[1]].code)

\* a group of one kind, with conditions on its first row at most
Homogeneous(g) ==
    /\ LikertOfOneFile(g) \/ YnnaOfOneStem(g)
    /\ \A i \in 2..Len(g) : Unconditioned(rows[g[i]])

(* C21: every group of more than one row yielded by group_likert is        *)
(* homogeneous: all its rows have the format likert (whatever the case of  *)
(* the letters) and the same answer_file, or all its rows have the format  *)
(* y/n/na and the same code without digits; and every row of the group but *)
(* the first has an empty condition.                                       *)
C21_CompoundGroupsHomogeneous ==
    /\ \A k \in 1..Len(groups) : Len(groups[k]) > 1 => Homogeneous(groups[k])
    /\ (pc = "emit" /\ Len(q) > 1) => Homogeneous(q)

\* the generator yielded a likert group that starts with a conditioned row
\* and whose rows spell the format differently
C21_Witness ==
    /\ Exhausted
    /\ \E k \in 1..Len(groups) :
           /\ Len(groups[k]) > 1
           /\ IsLikert(rows[groups[k][1]])
           /\ ~Unconditioned(rows[groups[k][1]])
           /\ rows[groups[k][2]].answer_format
                  # rows[groups[k][1]].answer_format

-----------------------------------------------------------------------------
\* the positions of the section headers written in pass p
PassHeaders(p) == { i \in 1..Len(out) : out[i].kind = "G" /\ out[i].pass = p }

\* the groups of gs that have a first row
WithFirstRow(gs) == SelectSeq(gs, LAMBDA g : g # << >>)

\* the number of groups of gs whose first row is of another section than the
\* first row of the group before, the first group counting
SectionChanges(gs) ==
    LET ne == WithFirstRow(gs)
    IN  Cardinality({ k \in 1..Len(ne) :
                          \/ k = 1
                          \/ rows[ne[k][1]].section # rows[ne[k - 1][1]].section })

\* a pass is under way or was cut short by an exception of its consumer
PassUnderWay ==
    /\ pc \in {"gen", "emit", "aborted"}
    /\ pass_txt_lang # None

====
